---------------------------- MODULE Spec2Model ----------------------------
(***************************************************************************)
(* omnisound: NoteSequence (a numeric table of note rows with child        *)
(* sequences and a flattened index), Note (a view over one row) and        *)
(* Measure (a NoteSequence with a Meter, a beat cursor and a start         *)
(* cursor).                                                                *)
(*                                                                         *)
(* Conventions of the model                                                *)
(*  - Times are integers, in ticks of 1/8 of a whole note (0.125).         *)
(*  - Python indexes are 0-based and kept 0-based in every operator that   *)
(*    takes or returns an index; At(s, i) reads the element at Python      *)
(*    index i of the TLA+ sequence s.                                      *)
(*  - Objects live in a heap keyed by object id.  Id 0 is the Measure, the *)
(*    other ids are NoteSequences.  Init is the state after the            *)
(*    constructors have run: every field holds what __init__ assigns.      *)
(*  - A Note view is the pair (owning sequence, row); creating one runs    *)
(*    Note.__init__ on the row's storage.                                  *)
(*  - A constructor call returns the object its body builds: the argument  *)
(*    validation of __init__ is not part of the model, its assignments     *)
(*    (Note.__init__ zeroing the storage it is handed) are.                *)
(*  - A call that raises leaves `raised` set to the exception's name and   *)
(*    keeps the writes made before the raise.                              *)
(*  - The floats of Meter.quantize are exact rationals <<numerator,        *)
(*    denominator>> with a positive denominator, in the same ticks.        *)
(***************************************************************************)
EXTENDS Integers, Sequences, FiniteSets, TLC

VARIABLES
    note_attrs,       \* id -> the table (sequence of rows) of the sequence
    child_sequences,  \* id -> list of child ids, or None
    max_index,        \* id -> NoteSequence.max_index
    index,            \* id -> NoteSequence.index, the iteration cursor
    range_map,        \* id -> NoteSequence._range_map, an insertion-ordered dict
    beat,             \* Measure.beat
    next_note_start,  \* Measure.next_note_start
    last_op,          \* name of the last call made
    raised,           \* exception raised by the last call, or "none"
    result,           \* value returned (or yielded) by the last call
    quantizing,       \* Meter.quantizing
    csound_notes,     \* the notes handed to the Meter: id -> [start, duration]
    note_list,        \* note_sequence.note_list handed to Meter.quantize (ids)
    new_note_sequence, \* the local new_note_sequence of Meter.quantize (ids)
    swing,            \* Measure.swing: None, or the fields of the Swing (a tuple)
    views,            \* the Notes constructed over rows: list of <<row, _attr_name_idx_map, __dict__>>
    meter             \* the fields of the Meter last constructed, or None

\* the state of the objects attached to a Measure
attached == <<quantizing, csound_notes, note_list, new_note_sequence, swing,
              views, meter>>

vars == <<note_attrs, child_sequences, max_index, index, range_map,
          beat, next_note_start, last_op, raised, result, attached>>

---------------------------------------------------------------------------
(* Bounds of the model *)

\* largest num_notes handed to a constructor
MaxNotes == 1

(* Program constants *)

\* beats_per_measure of Measure.DEFAULT_METER
BeatsPerMeasure == 4
NUM_BASE_ATTRS == 5
INSTRUMENT == 0
START == 1
DUR == 2
AMP == 3
PITCH == 4
\* NoteDur.QUARTER (0.25) in ticks
BEAT_NOTE_DUR == 2

\* id of the Measure; the NoteSequences are SeqIds
MeasureId == 0
SeqIds == {1, 2, 3}
Ids == {MeasureId} \cup SeqIds

\* largest number of rows a table is grown to by extend / insert
MaxRows == MaxNotes + 1

\* child_sequences = None
None == <<-1>>

\* values a caller writes to note.start and note.dur
Starts == {0, 1}
Durs == {0, BEAT_NOTE_DUR, BeatsPerMeasure * BEAT_NOTE_DUR + 1}

---------------------------------------------------------------------------
(* Python lists *)

At(s, i) == s[i + 1]

Range(n) == 0 .. (n - 1)

ListInsert(s, i, x) == SubSeq(s, 1, i) \o <<x>> \o SubSeq(s, i + 1, Len(s))

\* the row [0.0] * num_attributes
ZeroRow == [c \in 1 .. NUM_BASE_ATTRS |-> 0]

\* rows = [[0.0] * num_attributes for _ in range(num_notes)]
ZeroRows(num_notes) == [r \in 1 .. num_notes |-> ZeroRow]

\* ndarray.shape: np.array([]) is one-dimensional, shape (0,)
Shape(table) == IF Len(table) = 0 THEN <<0>> ELSE <<Len(table), NUM_BASE_ATTRS>>

\* the shape of one row, note.__dict__['_attrs'].shape
RowShape == <<NUM_BASE_ATTRS>>

---------------------------------------------------------------------------
(* Python dicts, kept in insertion order as a list of <<key, value>> *)

DictLastKey(d) == d[Len(d)][1]

\* d[k] = v: an existing key keeps its position, a new key goes last
DictSet(d, k, v) ==
    IF \E i \in 1 .. Len(d) : d[i][1] = k
    THEN [i \in 1 .. Len(d) |-> IF d[i][1] = k THEN <<k, v>> ELSE d[i]]
    ELSE Append(d, <<k, v>>)

---------------------------------------------------------------------------
(* Note: a view over one row *)

\* a Note over row `row` of the table of sequence `seq`
Note(seq, row) == [seq |-> seq, row |-> row]

\* no Note: the value of `result` when the call returned no view
NoNote == Note(-1, -1)

\* a Note over storage of its own (attrs = None: zeros(NUM_BASE_ATTRS))
PrivateNote == Note(-2, 0)

\* Note.__init__ on the row it is handed: self.__dict__['_attrs'].fill(0)
NoteInit(na, seq, row) == [na EXCEPT ![seq][row + 1] = ZeroRow]

\* Note.__getattr__ for a name of the attribute map
NoteGetAttr(na, note, attr) == At(At(na[note.seq], note.row), attr)

\* Note.__setattr__ for a name of the attribute map
NoteSetAttr(na, note, attr, val) ==
    [na EXCEPT ![note.seq][note.row + 1][attr + 1] = val]

---------------------------------------------------------------------------
(* NoteSequence *)

\* if self.child_sequences: a list that is not None and not empty
HasChildren(cs) == cs # None /\ cs # <<>>

\* the while loop of _update_range_map over child_seqs_queue
RECURSIVE ProcessQueue(_, _, _, _)
ProcessQueue(queue, rm, mi, cs) ==
    IF queue = <<>>
    THEN [raised |-> "none", range_map |-> rm]
    ELSE LET cur_seq == Head(queue)
             rm2 == DictSet(rm, DictLastKey(rm) + mi[cur_seq], cur_seq)
         IN  IF cs[cur_seq] = None
             THEN [raised |-> "TypeError", range_map |-> rm2]
             ELSE ProcessQueue(cs[cur_seq] \o Tail(queue), rm2, mi, cs)

\* NoteSequence._update_range_map of sequence s, given every sequence's
\* table, child list and current len (max_index)
UpdateRangeMap(s, na, cs, mi, rm) ==
    IF HasChildren(cs[s])
    THEN LET first == cs[s][1]
             rm0 == << <<Len(na[s]) + mi[first], first>> >>
             done == ProcessQueue(cs[s], rm0, mi, cs)
         IN  [raised |-> done.raised,
              range_map |-> done.range_map,
              max_index |-> IF done.raised = "none"
                            THEN DictLastKey(done.range_map) ELSE mi[s]]
    ELSE [raised |-> "none", range_map |-> rm[s], max_index |-> mi[s]]

\* NoteSequence.__len__
SeqLen(s) == max_index[s]

\* what _get_note_for_index hands back: a Note (or NoNote for None), or the
\* exception it raised, and the tables as the call left them
Got(exc, note, na) == [raised |-> exc, note |-> note, note_attrs |-> na]

\* note_cls(attrs=child[adjusted_index], ...) given what child[...] handed back:
\* Note.__init__ calls attrs.fill(0), and a Note has no fill
WrapChildNote(got) ==
    IF got.raised # "none" THEN got
    ELSE IF got.note = NoNote THEN Got("none", PrivateNote, got.note_attrs)
    ELSE Got("KeyError", NoNote, got.note_attrs)

RECURSIVE GetNoteForIndex(_, _, _)
RECURSIVE ScanRangeMap(_, _, _, _, _)

\* the for loop of _get_note_for_index over self._range_map.keys(), at
\* dict position k with the running index_range_sum
ScanRangeMap(na, s, i, k, index_range_sum) ==
    IF k > Len(range_map[s])
    THEN Got("none", NoNote, na)
    ELSE IF i < range_map[s][k][1]
    THEN WrapChildNote(GetNoteForIndex(na, range_map[s][k][2], i - index_range_sum))
    ELSE ScanRangeMap(na, s, i, k + 1, index_range_sum + range_map[s][k][1])

\* self.note_attrs[index] wrapped in a Note; a negative index counts from the end
OwnRow(na, s, row) ==
    IF row < 0 THEN Got("IndexError", NoNote, na)
    ELSE Got("none", Note(s, row), NoteInit(na, s, row))

\* NoteSequence._get_note_for_index
GetNoteForIndex(na, s, i) ==
    IF i >= max_index[s] THEN Got("ValueError", NoNote, na)
    ELSE IF i < Len(na[s])
    THEN OwnRow(na, s, IF i < 0 THEN Len(na[s]) + i ELSE i)
    ELSE ScanRangeMap(na, s, i, 1, Len(na[s]))

\* an argument of a call: a Note the caller holds, or a NoteSequence
NoteArg(note) == [kind |-> "note", note |-> note, seq |-> -1]
SeqArg(t) == [kind |-> "seq", note |-> NoNote, seq |-> t]

\* isinstance(to_add, Note)
IsNote(x) == x.kind = "note"

\* NoteSequence.append
SeqAppend(na, s, note) ==
    IF Shape(na[s]) # RowShape
    THEN [raised |-> "NoteSequenceInvalidAppendException", note_attrs |-> na]
    \* ndarray.resize takes a shape, not (array, int)
    ELSE [raised |-> "TypeError", note_attrs |-> na]

\* NoteSequence.extend
SeqExtend(na, s, t) ==
    IF Shape(na[s]) # Shape(na[t])
    THEN [raised |-> "NoteSequenceInvalidAppendException", note_attrs |-> na]
    ELSE [raised |-> "none", note_attrs |-> [na EXCEPT ![s] = na[s] \o na[t]]]

\* NoteSequence.__add__
SeqAdd(na, s, to_add) ==
    IF IsNote(to_add)
    THEN SeqAppend(na, s, to_add.note)
    ELSE SeqExtend(na, s, to_add.seq)

\* NoteSequence.__lshift__
SeqLshift(na, s, to_add) == SeqAdd(na, s, to_add)

\* np.insert(arr, index, values, axis=0) for an int index
NpInsert(arr, i, values) ==
    LET N == Len(arr)
        at == IF i < 0 THEN i + N ELSE i
    IN  IF i < -N \/ i > N
        THEN [raised |-> "IndexError", arr |-> arr]
        \* values is brought to arr's number of dimensions and must then
        \* broadcast into new[index : index + numnew]
        ELSE IF Len(arr) = 0 /\ Len(values) = 0
        THEN [raised |-> "none", arr |-> arr]
        ELSE IF Len(arr) = 0 \/ Len(values) = 0
        THEN [raised |-> "ValueError", arr |-> arr]
        ELSE [raised |-> "none",
              arr |-> SubSeq(arr, 1, at) \o values \o SubSeq(arr, at + 1, N)]

\* NoteSequence.insert
SeqInsert(na, s, i, to_add) ==
    IF IsNote(to_add)
    \* to_add.__dict__['attrs']: Note.__init__ stores the row as '_attrs'
    THEN [raised |-> "KeyError", note_attrs |-> na]
    ELSE LET ins == NpInsert(na[s], i, na[to_add.seq])
         IN  [raised |-> ins.raised, note_attrs |-> [na EXCEPT ![s] = ins.arr]]

\* NoteSequence.remove
SeqRemove(na, s, to_remove) ==
    IF IsNote(to_remove)
    THEN [raised |-> "KeyError", note_attrs |-> na]
    \* notes_to_remove[0] is a row of the table: an ndarray has no row_num
    ELSE IF Len(na[to_remove.seq]) = 0
    THEN [raised |-> "IndexError", note_attrs |-> na]
    ELSE [raised |-> "AttributeError", note_attrs |-> na]

---------------------------------------------------------------------------
(* Iteration: for note in sequence *)

\* note.as_list(): the values of the note's row, in column order
AsList(na, note) == IF note = PrivateNote THEN ZeroRow ELSE At(na[note.seq], note.row)

\* the rows gathered by a comprehension over a sequence, the exception that
\* ended it, the tables as it left them and the sequence's cursor
Gathered(exc, lists, na, i) ==
    [raised |-> exc, lists |-> lists, note_attrs |-> na, index |-> i]

RECURSIVE IterAsLists(_, _, _, _)
RECURSIVE IterAsListsStep(_, _, _, _)

\* one __next__ of the comprehension handed back `got`
IterAsListsStep(got, s, i, acc) ==
    IF got.raised # "none" THEN Gathered(got.raised, acc, got.note_attrs, i)
    ELSE IF got.note = NoNote
    THEN Gathered("AttributeError", acc, got.note_attrs, i + 1)
    ELSE IterAsLists(got.note_attrs, s, i + 1,
                     Append(acc, AsList(got.note_attrs, got.note)))

\* [note.as_list() for note in s]: __iter__, then __next__ until StopIteration,
\* from cursor i with the lists gathered so far
IterAsLists(na, s, i, acc) ==
    IF i = max_index[s] THEN Gathered("none", acc, na, i)
    ELSE IterAsListsStep(GetNoteForIndex(na, s, i), s, i, acc)

---------------------------------------------------------------------------
(* Meter of the Measure *)

\* meter.beat_start_times_secs: one start per beat of the measure
beat_start_times_secs == [b \in 1 .. BeatsPerMeasure |-> (b - 1) * BEAT_NOTE_DUR]

\* Measure.max_duration = meter.beats_per_measure * meter.beat_note_dur.value
max_duration == BeatsPerMeasure * BEAT_NOTE_DUR

---------------------------------------------------------------------------
(* Measure *)

\* the attribute-name map of the Measure's notes, in key order
ATTR_NAME_IDX_MAP ==
    << <<"instrument", INSTRUMENT>>, <<"start", START>>, <<"dur", DUR>>,
       <<"amp", AMP>>, <<"pitch", PITCH>> >>

\* how a call ended: the exception raised, the tables and the cursors
Outcome(exc, na, idx) == [raised |-> exc, note_attrs |-> na, index |-> idx]

\* list.sort(key=lambda x: x[START_I]): stable insertion of x into sorted
RECURSIVE InsertSorted(_, _)
InsertSorted(sorted, x) ==
    IF sorted = <<>> THEN <<x>>
    ELSE IF At(sorted[Len(sorted)], START) <= At(x, START)
    THEN Append(sorted, x)
    ELSE Append(InsertSorted(SubSeq(sorted, 1, Len(sorted) - 1), x),
                sorted[Len(sorted)])

RECURSIVE SortByStart(_)
SortByStart(lists) ==
    IF lists = <<>> THEN <<>>
    ELSE InsertSorted(SortByStart(SubSeq(lists, 1, Len(lists) - 1)),
                      lists[Len(lists)])

RECURSIVE WriteBack(_, _, _, _, _)
RECURSIVE WriteBackStep(_, _, _, _, _)

\* self[i].__setattr__(attr_name, sorted_note[j]) given what self[i] handed back
WriteBackStep(got, s, sorted_notes, i, j) ==
    IF got.raised # "none" THEN Got(got.raised, NoNote, got.note_attrs)
    ELSE IF j >= Len(At(sorted_notes, i))
    THEN Got("IndexError", NoNote, got.note_attrs)
    ELSE IF got.note \in {NoNote, PrivateNote}
    THEN WriteBack(got.note_attrs, s, sorted_notes, i, j + 1)
    ELSE WriteBack(NoteSetAttr(got.note_attrs, got.note,
                               At(ATTR_NAME_IDX_MAP, j)[2],
                               At(At(sorted_notes, i), j)),
                   s, sorted_notes, i, j + 1)

\* the write-back loops of _sort_notes_by_start_time: note i, name j
WriteBack(na, s, sorted_notes, i, j) ==
    IF i >= Len(sorted_notes) THEN Got("none", NoNote, na)
    ELSE IF j >= Len(ATTR_NAME_IDX_MAP)
    THEN WriteBack(na, s, sorted_notes, i + 1, 0)
    ELSE WriteBackStep(GetNoteForIndex(na, s, i), s, sorted_notes, i, j)

\* _sort_notes_by_start_time once the rows are written back
SortWritten(wb, idx) == Outcome(wb.raised, wb.note_attrs, idx)

\* _sort_notes_by_start_time once the rows are gathered
SortGathered(it, idx, s) ==
    IF it.raised # "none"
    THEN Outcome(it.raised, it.note_attrs, [idx EXCEPT ![s] = it.index])
    ELSE SortWritten(WriteBack(it.note_attrs, s, SortByStart(it.lists), 0, 0),
                     [idx EXCEPT ![s] = it.index])

\* a re-sort that writes every row back under the names instrument, i,
\* start, s, dur of a map with aliases: name number j is given value number j
\* of the row, until the row has no value number 5 for the name d
SortWithAliases(na, idx, s) ==
    Outcome("IndexError",
            [na EXCEPT ![s] =
                [k \in 1 .. Len(na[s]) |->
                    [na[s][k] EXCEPT ![INSTRUMENT + 1] = na[s][k][2],
                                      ![START + 1] = na[s][k][4],
                                      ![DUR + 1] = na[s][k][5]]]],
            idx)

\* Measure._sort_notes_by_start_time of s; idx is every sequence's cursor
SortNotesByStartTime(na, idx, s) ==
    SortGathered(IterAsLists(na, s, 0, <<>>), idx, s)

\* the outcome of a NoteSequence method, which moves no cursor
WithIndex(done, idx) == Outcome(done.raised, done.note_attrs, idx)

\* self._sort_notes_by_start_time() after a call that returned
ThenSort(done) ==
    IF done.raised # "none" THEN done
    ELSE SortNotesByStartTime(done.note_attrs, done.index, MeasureId)

\* Measure.append
MeasureAppend(na, idx, note) ==
    ThenSort(WithIndex(SeqAppend(na, MeasureId, note), idx))

\* Measure.extend
MeasureExtend(na, idx, t) ==
    ThenSort(WithIndex(SeqExtend(na, MeasureId, t), idx))

\* Measure.__add__: NoteSequence.__add__ calls self.append / self.extend,
\* which are the Measure's
MeasureAdd(na, idx, to_add) ==
    ThenSort(IF IsNote(to_add)
             THEN MeasureAppend(na, idx, to_add.note)
             ELSE MeasureExtend(na, idx, to_add.seq))

\* Measure.__lshift__
MeasureLshift(na, idx, to_add) == MeasureAdd(na, idx, to_add)

\* Measure.insert
MeasureInsert(na, idx, i, to_add) ==
    ThenSort(WithIndex(SeqInsert(na, MeasureId, i, to_add), idx))

\* Measure.remove
MeasureRemove(na, idx, to_remove) ==
    ThenSort(WithIndex(SeqRemove(na, MeasureId, to_remove), idx))

\* increment_beat with the cap one beat too far
IncrementBeatOffByOne(b) ==
    IF b + 1 < BeatsPerMeasure + 1 THEN b + 1 ELSE BeatsPerMeasure + 1

\* Measure.increment_beat
IncrementBeat(b) == IF b + 1 < BeatsPerMeasure THEN b + 1 ELSE BeatsPerMeasure

\* Measure.decrement_beat
DecrementBeat(b) == IF b - 1 > 0 THEN b - 1 ELSE 0

\* how add_note_on_beat ended: the outcome and the beat cursor
BeatOutcome(exc, na, idx, b) ==
    [raised |-> exc, note_attrs |-> na, index |-> idx, beat |-> b]

\* add_note_on_beat after self.append(note) and the re-sort ended as `done`
AddNoteOnBeatEnd(done, b, increment_beat_arg) ==
    BeatOutcome(done.raised, done.note_attrs, done.index,
                IF done.raised = "none" /\ increment_beat_arg
                THEN IncrementBeat(b) ELSE b)

\* Measure.add_note_on_beat
AddNoteOnBeat(na, idx, b, note, increment_beat_arg) ==
    IF b >= Len(beat_start_times_secs)
    THEN BeatOutcome("IndexError", na, idx, b)
    ELSE AddNoteOnBeatEnd(
             ThenSort(MeasureAppend(
                 NoteSetAttr(na, note, START, At(beat_start_times_secs, b)),
                 idx, note)),
             b, increment_beat_arg)

\* how add_note_on_start / add_notes_on_start ended: the outcome and the
\* start cursor
StartOutcome(exc, na, idx, nns) ==
    [raised |-> exc, note_attrs |-> na, index |-> idx, next_note_start |-> nns]

\* add_note_on_start after self.append(note) and the re-sort ended as `done`
AddNoteOnStartEnd(done, nns, note, increment_start) ==
    StartOutcome(done.raised, done.note_attrs, done.index,
                 IF done.raised = "none" /\ increment_start
                 THEN nns + NoteGetAttr(done.note_attrs, note, DUR) ELSE nns)

\* add_note_on_start without the capacity check, moving the cursor whatever
\* became of the append
AddNoteOnStartUnchecked(na, idx, nns, note, increment_start) ==
    StartOutcome(MeasureAppend(NoteSetAttr(na, note, START, nns), idx, note).raised,
                 NoteSetAttr(na, note, START, nns), idx,
                 IF increment_start THEN nns + NoteGetAttr(na, note, DUR) ELSE nns)

\* add_note_on_start with note.start assigned ahead of the capacity check
AddNoteOnStartAssignFirst(na, idx, nns, note, increment_start) ==
    IF nns + NoteGetAttr(na, note, DUR) > max_duration
    THEN StartOutcome("ValueError", NoteSetAttr(na, note, START, nns), idx, nns)
    ELSE AddNoteOnStartEnd(
             ThenSort(MeasureAppend(NoteSetAttr(na, note, START, nns), idx, note)),
             nns, note, increment_start)

\* Measure.add_note_on_start
AddNoteOnStart(na, idx, nns, note, increment_start) ==
    IF nns + NoteGetAttr(na, note, DUR) > max_duration
    THEN StartOutcome("ValueError", na, idx, nns)
    ELSE AddNoteOnStartEnd(
             ThenSort(MeasureAppend(NoteSetAttr(na, note, START, nns), idx, note)),
             nns, note, increment_start)

\* sum([note.dur for note in to_add]) over the gathered rows
RECURSIVE SumDur(_)
SumDur(lists) ==
    IF lists = <<>> THEN 0
    ELSE At(Head(lists), DUR) + SumDur(Tail(lists))

\* note.start = val through the Note handed back by an iteration
SetStart(na, note, val) ==
    IF note = PrivateNote THEN na ELSE NoteSetAttr(na, note, START, val)

RECURSIVE AddNotesOnStartLoop(_, _, _, _, _)
RECURSIVE AddNotesOnStartBody(_, _, _, _, _)
RECURSIVE AddNotesOnStartAppended(_, _, _, _, _)

\* the loop body after self.append(note) ended as `app`:
\* self.next_note_start += note.dur
AddNotesOnStartAppended(app, note, nns, t, i) ==
    IF app.raised # "none"
    THEN StartOutcome(app.raised, app.note_attrs, app.index, nns)
    ELSE AddNotesOnStartLoop(app.note_attrs, app.index,
                             nns + At(AsList(app.note_attrs, note), DUR), t, i + 1)

\* the loop body given what __next__ handed back:
\* note.start = self.next_note_start; self.append(note)
AddNotesOnStartBody(got, idx, nns, t, i) ==
    IF got.raised # "none"
    THEN StartOutcome(got.raised, got.note_attrs, idx, nns)
    ELSE IF got.note = NoNote
    THEN StartOutcome("AttributeError", got.note_attrs,
                      [idx EXCEPT ![t] = i + 1], nns)
    ELSE AddNotesOnStartAppended(
             MeasureAppend(SetStart(got.note_attrs, got.note, nns),
                           [idx EXCEPT ![t] = i + 1], got.note),
             got.note, nns, t, i)

\* the loop `for note in to_add` of add_notes_on_start, at cursor i of to_add
AddNotesOnStartLoop(na, idx, nns, t, i) ==
    IF i = max_index[t] THEN StartOutcome("none", na, idx, nns)
    ELSE AddNotesOnStartBody(GetNoteForIndex(na, t, i), idx, nns, t, i)

\* the closing re-sort of add_notes_on_start
AddNotesOnStartSorted(srt, nns) ==
    StartOutcome(srt.raised, srt.note_attrs, srt.index, nns)

\* add_notes_on_start after its loop ended as `loop`
AddNotesOnStartEnd(loop) ==
    IF loop.raised # "none" THEN loop
    ELSE AddNotesOnStartSorted(
             SortNotesByStartTime(loop.note_attrs, loop.index, MeasureId),
             loop.next_note_start)

\* add_notes_on_start once the durations are gathered: the capacity check
AddNotesOnStartCheck(it, idx, nns, t) ==
    IF it.raised # "none"
    THEN StartOutcome(it.raised, it.note_attrs, [idx EXCEPT ![t] = it.index], nns)
    ELSE IF nns + SumDur(it.lists) > max_duration
    THEN StartOutcome("ValueError", it.note_attrs, [idx EXCEPT ![t] = it.index], nns)
    ELSE AddNotesOnStartEnd(
             AddNotesOnStartLoop(it.note_attrs, [idx EXCEPT ![t] = 0], nns, t, 0))

\* Measure.add_notes_on_start
AddNotesOnStart(na, idx, nns, t) ==
    AddNotesOnStartCheck(IterAsLists(na, t, 0, <<>>), idx, nns, t)

RECURSIVE AddNotesOnBeatLoop(_, _)
RECURSIVE AddNotesOnBeatBody(_, _)

\* self[i].start = beat_start_time given what self[i] handed back
AddNotesOnBeatBody(got, i) ==
    IF got.raised # "none" THEN Got(got.raised, NoNote, got.note_attrs)
    ELSE IF got.note = NoNote THEN Got("AttributeError", NoNote, got.note_attrs)
    ELSE AddNotesOnBeatLoop(
             SetStart(got.note_attrs, got.note, At(beat_start_times_secs, i)),
             i + 1)

\* the loop over enumerate(beat_start_times_secs) of add_notes_on_beat
AddNotesOnBeatLoop(na, i) ==
    IF i >= Len(beat_start_times_secs) \/ i = SeqLen(MeasureId)
    THEN Got("none", NoNote, na)
    ELSE AddNotesOnBeatBody(GetNoteForIndex(na, MeasureId, i), i)

\* Measure.add_notes_on_beat
AddNotesOnBeat(na, idx, t) ==
    IF SeqLen(t) > BeatsPerMeasure THEN Outcome("ValueError", na, idx)
    ELSE ThenSort(WithIndex(AddNotesOnBeatLoop(na, 0), idx))

---------------------------------------------------------------------------
(* Construction *)

\* NoteSequence.__init__ of the sequences of `order`, one after the other:
\* max_index = 0, then _update_range_map against the sequences built so far
RECURSIVE Construct(_, _, _, _, _)
Construct(order, na, cs, mi, rm) ==
    IF order = <<>>
    THEN [raised |-> "none", max_index |-> mi, range_map |-> rm]
    ELSE LET s == Head(order)
             upd == UpdateRangeMap(s, na, cs, mi, rm)
         IN  IF upd.raised # "none"
             THEN [raised |-> upd.raised, max_index |-> mi, range_map |-> rm]
             ELSE Construct(Tail(order), na, cs,
                            [mi EXCEPT ![s] = upd.max_index],
                            [rm EXCEPT ![s] = upd.range_map])

\* the child lists the sequences are constructed with; a sequence is built
\* after its children, and the Measure passes no child_sequences
ChildlessShape == [s \in Ids |-> None]

TreeShapes ==
    { ChildlessShape,
      [ChildlessShape EXCEPT ![1] = <<>>],
      [ChildlessShape EXCEPT ![1] = <<2>>, ![2] = <<>>],
      [ChildlessShape EXCEPT ![1] = <<2, 3>>, ![2] = <<>>, ![3] = <<>>],
      [ChildlessShape EXCEPT ![1] = <<3, 2>>, ![2] = <<>>, ![3] = <<>>],
      [ChildlessShape EXCEPT ![1] = <<2>>, ![2] = <<3>>, ![3] = <<>>] }

\* the tables the constructors allocate for the numbers of notes nn
Tables(nn) == [s \in Ids |-> ZeroRows(nn[s])]

\* the constructors run for the numbers of notes nn and the child lists cs
Built(nn, cs) ==
    Construct(<<3, 2, 1, MeasureId>>, Tables(nn), cs,
              [s \in Ids |-> 0], [s \in Ids |-> <<>>])

\* the state after the constructors ran, for child lists among `shapes`.
\* Measure.__init__ goes on to _sort_notes_by_start_time, which iterates the
\* max_index = 0 notes of the new Measure, and sets beat and next_note_start
InitWith(shapes, num_notes) ==
    \E nn \in num_notes, cs \in shapes :
        /\ Built(nn, cs).raised = "none"
        /\ note_attrs = Tables(nn)
        /\ child_sequences = cs
        /\ max_index = Built(nn, cs).max_index
        /\ range_map = Built(nn, cs).range_map
        /\ index = [s \in Ids |-> 0]
        /\ beat = 0
        /\ next_note_start = 0
        /\ last_op = "__init__"
        /\ raised = "none"
        /\ result = NoNote

\* a Meter with the default quantizing, and no note sequence handed to it
Unattached ==
    /\ quantizing = TRUE
    /\ csound_notes = <<>>
    /\ note_list = <<>>
    /\ new_note_sequence = None
    /\ swing = None
    /\ views = <<>>
    /\ meter = None

---------------------------------------------------------------------------
(* Arguments of the calls *)

\* the Notes over the rows of sequence t
NotesOf(t) == { Note(t, r) : r \in Range(Len(note_attrs[t])) }

\* the arguments of a call that takes a Note or a NoteSequence
ToAdd(notes, seqs) == { NoteArg(n) : n \in notes } \cup { SeqArg(t) : t \in seqs }

Indexes == -(MaxRows + 1) .. (MaxRows + 1)

\* the tables stay within MaxRows rows
Fits(done) == \A s \in Ids : Len(done.note_attrs[s]) <= MaxRows

\* the caller assigns val to an attribute of a Note it holds
SetAttr(note, attr, val) ==
    /\ note_attrs' = NoteSetAttr(note_attrs, note, attr, val)
    /\ last_op' = "__setattr__"
    /\ raised' = "none"
    /\ result' = NoNote
    /\ UNCHANGED <<attached, child_sequences, max_index, index, range_map,
                   beat, next_note_start>>

---------------------------------------------------------------------------
(* Calls on the Measure *)

\* the sequence handed to the Measure's methods, and the sequence whose
\* single row backs the Note handed to them
ToAddId == 1
NoteSeqId == 3
TheNote == Note(NoteSeqId, 0)
MeasureToAdd == ToAdd({TheNote}, {ToAddId})

\* the call `op` on the Measure ended as `done`
MeasureCall(op, done) ==
    /\ Fits(done)
    /\ note_attrs' = done.note_attrs
    /\ index' = done.index
    /\ raised' = done.raised
    /\ last_op' = op
    /\ result' = NoNote
    /\ UNCHANGED <<attached, child_sequences, max_index, range_map>>

reset_current_beat ==
    /\ beat' = 0
    /\ last_op' = "reset_current_beat"
    /\ raised' = "none"
    /\ result' = NoNote
    /\ UNCHANGED <<attached, note_attrs, child_sequences, max_index, index, range_map,
                   next_note_start>>

increment_beat ==
    /\ beat' = IncrementBeat(beat)
    /\ last_op' = "increment_beat"
    /\ raised' = "none"
    /\ result' = NoNote
    /\ UNCHANGED <<attached, note_attrs, child_sequences, max_index, index, range_map,
                   next_note_start>>

decrement_beat ==
    /\ beat' = DecrementBeat(beat)
    /\ last_op' = "decrement_beat"
    /\ raised' = "none"
    /\ result' = NoNote
    /\ UNCHANGED <<attached, note_attrs, child_sequences, max_index, index, range_map,
                   next_note_start>>

\* the call `op` ended as `done` and left the beat cursor at done.beat
MeasureCallBeat(op, done) ==
    /\ MeasureCall(op, done)
    /\ beat' = done.beat
    /\ UNCHANGED next_note_start

\* the call `op` ended as `done` and left the start cursor at
\* done.next_note_start
MeasureCallStart(op, done) ==
    /\ MeasureCall(op, done)
    /\ next_note_start' = done.next_note_start
    /\ UNCHANGED beat

AddNoteOnBeatCall(n, increment_beat_arg) ==
    MeasureCallBeat("add_note_on_beat",
                    AddNoteOnBeat(note_attrs, index, beat, n, increment_beat_arg))

add_note_on_beat ==
    \E n \in {TheNote}, increment_beat_arg \in BOOLEAN :
        AddNoteOnBeatCall(n, increment_beat_arg)

AddNotesOnBeatCall(t) ==
    /\ MeasureCall("add_notes_on_beat", AddNotesOnBeat(note_attrs, index, t))
    /\ UNCHANGED <<beat, next_note_start>>

add_notes_on_beat == \E t \in {ToAddId} : AddNotesOnBeatCall(t)

AddNoteOnStartCall(n, increment_start) ==
    MeasureCallStart("add_note_on_start",
                     AddNoteOnStart(note_attrs, index, next_note_start, n,
                                    increment_start))

add_note_on_start ==
    \E n \in {TheNote}, increment_start \in BOOLEAN :
        AddNoteOnStartCall(n, increment_start)

AddNotesOnStartCall(t) ==
    MeasureCallStart("add_notes_on_start",
                     AddNotesOnStart(note_attrs, index, next_note_start, t))

add_notes_on_start == \E t \in {ToAddId} : AddNotesOnStartCall(t)

measure_append ==
    \E n \in {TheNote} :
        /\ MeasureCall("append", MeasureAppend(note_attrs, index, n))
        /\ UNCHANGED <<beat, next_note_start>>

measure_extend ==
    \E t \in {ToAddId} :
        /\ MeasureCall("extend", MeasureExtend(note_attrs, index, t))
        /\ UNCHANGED <<beat, next_note_start>>

measure_add ==
    \E x \in MeasureToAdd :
        /\ MeasureCall("__add__", MeasureAdd(note_attrs, index, x))
        /\ UNCHANGED <<beat, next_note_start>>

measure_lshift ==
    \E x \in MeasureToAdd :
        /\ MeasureCall("__lshift__", MeasureLshift(note_attrs, index, x))
        /\ UNCHANGED <<beat, next_note_start>>

measure_insert ==
    \E i \in Indexes, x \in MeasureToAdd :
        /\ MeasureCall("insert", MeasureInsert(note_attrs, index, i, x))
        /\ UNCHANGED <<beat, next_note_start>>

measure_remove ==
    \E x \in MeasureToAdd :
        /\ MeasureCall("remove", MeasureRemove(note_attrs, index, x))
        /\ UNCHANGED <<beat, next_note_start>>

\* a newly constructed Measure, and the sequences and notes handed to it
Init ==
    /\ InitWith({ChildlessShape, [ChildlessShape EXCEPT ![1] = <<2>>, ![2] = <<>>]},
                { nn \in [Ids -> 0 .. MaxNotes] : nn[2] = MaxNotes /\ nn[NoteSeqId] = 1 })
    /\ Unattached

\* the caller sets the start of a note of the sequence, or the start or the
\* duration of the Note
measure_setattr ==
    \/ \E n \in NotesOf(ToAddId) \cup {TheNote}, v \in Starts : SetAttr(n, START, v)
    \/ \E v \in Durs : SetAttr(TheNote, DUR, v)

Next ==
    \/ measure_setattr
    \/ reset_current_beat
    \/ increment_beat
    \/ decrement_beat
    \/ add_note_on_beat
    \/ add_notes_on_beat
    \/ add_note_on_start
    \/ add_notes_on_start
    \/ measure_append
    \/ measure_extend
    \/ measure_add
    \/ measure_lshift
    \/ measure_insert
    \/ measure_remove

Spec == Init /\ [][Next]_vars

---------------------------------------------------------------------------
(* The start cursor of the Measure: notes added one after the other *)

\* the caller sets the duration of a note of the sequence
start_setattr_dur ==
    \E n \in NotesOf(ToAddId), v \in Durs : SetAttr(n, DUR, v)

\* a newly constructed Measure and a sequence that holds notes
StartInit ==
    /\ InitWith({[ChildlessShape EXCEPT ![1] = <<2>>, ![2] = <<>>]},
                { nn \in [Ids -> 0 .. MaxNotes] :
                      nn[ToAddId] > 0 /\ nn[2] = 0 /\ nn[NoteSeqId] = 1 })
    /\ Unattached

StartNext ==
    \/ measure_setattr
    \/ start_setattr_dur
    \/ add_note_on_start
    \/ add_notes_on_start

StartSpec == StartInit /\ [][StartNext]_vars

---------------------------------------------------------------------------
(* Calls on a NoteSequence *)

\* the sequence the writes go to, and the sequences handed to it
RootId == 1
OtherIds == SeqIds \ {RootId}
SeqToAdd == ToAdd({PrivateNote}, OtherIds)

\* the call `op` of a NoteSequence method that moves no cursor ended as `done`
SeqCall(op, done) ==
    /\ Fits(done)
    /\ note_attrs' = done.note_attrs
    /\ raised' = done.raised
    /\ last_op' = op
    /\ result' = NoNote
    /\ UNCHANGED <<attached, child_sequences, max_index, index, range_map,
                   beat, next_note_start>>

AppendCall(s, note) == SeqCall("append", SeqAppend(note_attrs, s, note))

ExtendCall(s, t) == SeqCall("extend", SeqExtend(note_attrs, s, t))

AddCall(s, x) == SeqCall("__add__", SeqAdd(note_attrs, s, x))

LshiftCall(s, x) == SeqCall("__lshift__", SeqLshift(note_attrs, s, x))

InsertCall(s, i, x) == SeqCall("insert", SeqInsert(note_attrs, s, i, x))

RemoveCall(s, x) == SeqCall("remove", SeqRemove(note_attrs, s, x))

\* NoteSequence.append_child_sequence: None has no append
AppendChildSequenceCall(s, t) ==
    /\ IF child_sequences[s] = None
       THEN /\ raised' = "AttributeError"
            /\ UNCHANGED child_sequences
       ELSE /\ raised' = "none"
            /\ child_sequences' = [child_sequences EXCEPT ![s] = Append(@, t)]
    /\ last_op' = "append_child_sequence"
    /\ result' = NoNote
    /\ UNCHANGED <<attached, note_attrs, max_index, index, range_map, beat, next_note_start>>

\* NoteSequence.__getitem__ ended as `got`
GetItemEnd(got) ==
    /\ note_attrs' = got.note_attrs
    /\ raised' = got.raised
    /\ result' = got.note
    /\ last_op' = "__getitem__"
    /\ UNCHANGED <<attached, child_sequences, max_index, index, range_map,
                   beat, next_note_start>>

\* NoteSequence.__getitem__
GetItemCall(s, i) == GetItemEnd(GetNoteForIndex(note_attrs, s, i))

\* NoteSequence.__iter__
IterCall(s) ==
    /\ index' = [index EXCEPT ![s] = 0]
    /\ last_op' = "__iter__"
    /\ raised' = "none"
    /\ result' = NoNote
    /\ UNCHANGED <<attached, note_attrs, child_sequences, max_index, range_map,
                   beat, next_note_start>>

\* NoteSequence.__next__ after _get_note_for_index ended as `got`
NextEnd(s, got) ==
    /\ note_attrs' = got.note_attrs
    /\ raised' = got.raised
    /\ result' = got.note
    /\ index' = IF got.raised = "none" THEN [index EXCEPT ![s] = @ + 1] ELSE index

\* NoteSequence.__next__
NextCall(s) ==
    /\ IF index[s] = max_index[s]
       THEN /\ raised' = "StopIteration"
            /\ result' = NoNote
            /\ UNCHANGED <<note_attrs, index>>
       ELSE NextEnd(s, GetNoteForIndex(note_attrs, s, index[s]))
    /\ last_op' = "__next__"
    /\ UNCHANGED <<attached, child_sequences, max_index, range_map, beat, next_note_start>>

seq_append == \E n \in {PrivateNote} : AppendCall(RootId, n)

seq_extend == \E t \in OtherIds : ExtendCall(RootId, t)

seq_add == \E x \in SeqToAdd : AddCall(RootId, x)

seq_lshift == \E x \in SeqToAdd : LshiftCall(RootId, x)

seq_insert == \E i \in Indexes, x \in SeqToAdd : InsertCall(RootId, i, x)

\* the caller removes a note of the sequence it holds, a note of its own or
\* another sequence
seq_remove ==
    \E x \in SeqToAdd \cup ToAdd(NotesOf(RootId), {}) : RemoveCall(RootId, x)

\* a sequence is registered as a child once, and not under its own descendant
append_child_sequence ==
    \E s \in {RootId, 3}, t \in OtherIds :
        /\ s # t
        /\ child_sequences[s] = None \/ \A k \in DOMAIN child_sequences[s] :
                                            child_sequences[s][k] # t
        /\ child_sequences[t] = None \/ child_sequences[t] = <<>>
        /\ AppendChildSequenceCall(s, t)

seq_getitem == \E s \in SeqIds, i \in Indexes : GetItemCall(s, i)

\* the sequences the caller iterates and writes notes of: the root and its
\* first child
Iterated == {RootId, 2}

seq_iter == \E s \in Iterated : IterCall(s)

seq_next == \E s \in Iterated : NextCall(s)

\* the caller sets the start of a note of a sequence
seq_setattr == \E s \in Iterated : \E n \in NotesOf(s) : SetAttr(n, START, 1)

\* newly constructed NoteSequences, in every tree shape
SeqInit ==
    /\ InitWith(TreeShapes, { nn \in [Ids -> 0 .. MaxNotes] : nn[MeasureId] = 0 })
    /\ Unattached

SeqNext ==
    \/ seq_setattr
    \/ seq_append
    \/ seq_extend
    \/ seq_add
    \/ seq_lshift
    \/ seq_insert
    \/ seq_remove
    \/ append_child_sequence
    \/ seq_getitem
    \/ seq_iter
    \/ seq_next

SeqSpec == SeqInit /\ [][SeqNext]_vars

---------------------------------------------------------------------------
(* Meter: quantizing the notes of a sequence to the duration of a measure *)

\* number of notes of the sequence handed to Meter.quantize
NUM_NOTES == 4

\* float arithmetic on <<numerator, denominator>>; the divisor of "/" is
\* positive
Float(x, op, y) ==
    CASE op = "+" -> <<x[1] * y[2] + y[1] * x[2], x[2] * y[2]>>
      [] op = "-" -> <<x[1] * y[2] - y[1] * x[2], x[2] * y[2]>>
      [] op = "*" -> <<x[1] * y[1], x[2] * y[2]>>
      [] op = "/" -> <<x[1] * y[2], x[2] * y[1]>>

RECURSIVE NotesDuration(_, _)
\* sum([note.dur for note in note_sequence.note_list])
NotesDuration(ns, ids) ==
    IF ids = <<>>
    THEN <<0, 1>>
    ELSE Float(ns[Head(ids)].duration, "+", NotesDuration(ns, Tail(ids)))

\* NoteSequence.dup: new notes with the values of the notes of the sequence
Dup(ns, ids) ==
    [notes |-> ns \o [k \in 1 .. Len(ids) |-> ns[ids[k]]],
     note_list |-> [k \in 1 .. Len(ids) |-> Len(ns) + k]]

RECURSIVE QuantizeLoop(_, _, _)
\* for note in new_note_sequence.note_list: new_duration is
\* note.duration * note_adj_factor
QuantizeLoop(ns, ids, note_adj_factor) ==
    IF ids = <<>>
    THEN ns
    ELSE QuantizeLoop(
             [ns EXCEPT ![Head(ids)] =
                 [start |-> IF @.start[1] > 0
                            THEN Float(@.start, "+",
                                       Float(Float(@.duration, "*", note_adj_factor),
                                             "-", @.duration))
                            ELSE @.start,
                  duration |-> Float(@.duration, "*", note_adj_factor)]],
             Tail(ids), note_adj_factor)

\* quantize that rescales the notes of the sequence it is handed
QuantizeInPlace(ns, ids, measure_duration, notes_duration) ==
    IF notes_duration[1] * measure_duration[2] = measure_duration[1] * notes_duration[2]
    THEN [raised |-> "none", notes |-> ns, new_note_sequence |-> None]
    ELSE IF notes_duration[1] = 0
    THEN [raised |-> "ZeroDivisionError", notes |-> ns, new_note_sequence |-> None]
    ELSE [raised |-> "none",
          notes |-> QuantizeLoop(ns, ids, Float(measure_duration, "/", notes_duration)),
          new_note_sequence |-> ids]

\* Meter.quantize, notes_duration computed
QuantizeSummed(ns, ids, measure_duration, notes_duration) ==
    IF notes_duration[1] * measure_duration[2] = measure_duration[1] * notes_duration[2]
    THEN [raised |-> "none", notes |-> ns, new_note_sequence |-> None]
    ELSE IF notes_duration[1] = 0
    THEN [raised |-> "ZeroDivisionError", notes |-> ns, new_note_sequence |-> None]
    ELSE [raised |-> "none",
          notes |-> QuantizeLoop(Dup(ns, ids).notes, Dup(ns, ids).note_list,
                                 Float(measure_duration, "/", notes_duration)),
          new_note_sequence |-> Dup(ns, ids).note_list]

\* quantize that does not look at the quantizing flag
QuantizeAlways(q, ns, ids, measure_duration) ==
    QuantizeSummed(ns, ids, measure_duration, NotesDuration(ns, ids))

Quantize(q, ns, ids, measure_duration) ==
    IF q
    THEN QuantizeSummed(ns, ids, measure_duration, NotesDuration(ns, ids))
    ELSE [raised |-> "none", notes |-> ns, new_note_sequence |-> None]

quantizing_on ==
    /\ quantizing' = TRUE
    /\ last_op' = "quantizing_on"
    /\ raised' = "none"
    /\ UNCHANGED <<views, meter, note_attrs, child_sequences, max_index, index, range_map, beat,
                   next_note_start, result, csound_notes, note_list, new_note_sequence,
                   swing>>

quantizing_off ==
    /\ quantizing' = FALSE
    /\ last_op' = "quantizing_off"
    /\ raised' = "none"
    /\ UNCHANGED <<views, meter, note_attrs, child_sequences, max_index, index, range_map, beat,
                   next_note_start, result, csound_notes, note_list, new_note_sequence,
                   swing>>

\* Meter.quantize ended as `done`
QuantizeEnd(done) ==
    /\ csound_notes' = done.notes
    /\ new_note_sequence' = done.new_note_sequence
    /\ raised' = done.raised
    /\ last_op' = "quantize"
    /\ UNCHANGED <<views, meter, note_attrs, child_sequences, max_index, index, range_map, beat,
                   next_note_start, result, quantizing, note_list, swing>>

\* the notes an earlier call copied are no longer referenced: the call starts
\* with the notes of its argument
QuantizeCall(measure_duration) ==
    QuantizeEnd(Quantize(quantizing, SubSeq(csound_notes, 1, Len(note_list)),
                         note_list, measure_duration))

\* the measure durations handed to quantize
MeasureDurations == { <<0, 1>>, <<max_duration \div 2, 1>>, <<max_duration, 1>> }

\* a Meter, and a sequence of at most NUM_NOTES notes; the note at position k
\* (0-based) starts on its beat or at 0
QuantInit ==
    /\ InitWith({ChildlessShape}, {[s \in Ids |-> 0]})
    /\ quantizing \in BOOLEAN
    /\ \E n \in 0 .. NUM_NOTES :
           /\ \E on_beat \in [1 .. n -> BOOLEAN],
                 durs \in [1 .. n -> {0, BEAT_NOTE_DUR, 2 * BEAT_NOTE_DUR}] :
                  csound_notes =
                      [k \in 1 .. n |->
                          [start |-> <<IF on_beat[k] THEN (k - 1) * BEAT_NOTE_DUR ELSE 0, 1>>,
                           duration |-> <<durs[k], 1>>]]
           /\ note_list = [k \in 1 .. n |-> k]
    /\ new_note_sequence = None
    /\ swing = None
    /\ views = <<>>
    /\ meter = None

QuantNext ==
    \/ quantizing_on
    \/ quantizing_off
    \/ \E measure_duration \in MeasureDurations : QuantizeCall(measure_duration)

QuantSpec == QuantInit /\ [][QuantNext]_vars

---------------------------------------------------------------------------
(* Swing of the Measure, and the quantizing of its notes to the beat *)

\* largest distance from 0 of a start that apply_swing is still applied to
MaxSwingStart == 4

\* the nearest beat start time, the later of two equally near
NearestBeatLater(start) ==
    CHOOSE b \in { beat_start_times_secs[k] : k \in 1 .. Len(beat_start_times_secs) } :
        \A c \in { beat_start_times_secs[k] : k \in 1 .. Len(beat_start_times_secs) } :
            \/ (b - start) * (b - start) < (c - start) * (c - start)
            \/ (b - start) * (b - start) = (c - start) * (c - start) /\ b >= c

\* the beat start time nearest to start, the earlier of two equally near
NearestBeat(start) ==
    CHOOSE b \in { beat_start_times_secs[k] : k \in 1 .. Len(beat_start_times_secs) } :
        \A c \in { beat_start_times_secs[k] : k \in 1 .. Len(beat_start_times_secs) } :
            \/ (b - start) * (b - start) < (c - start) * (c - start)
            \/ (b - start) * (b - start) = (c - start) * (c - start) /\ b <= c

\* Measure.quantize_to_beat: self.meter.quantize_to_beat(self)
quantize_to_beat ==
    /\ note_attrs' =
           [note_attrs EXCEPT ![MeasureId] =
               [k \in 1 .. Len(note_attrs[MeasureId]) |->
                   [note_attrs[MeasureId][k] EXCEPT
                        ![START + 1] = NearestBeat(note_attrs[MeasureId][k][START + 1])]]]
    /\ last_op' = "quantize_to_beat"
    /\ raised' = "none"
    /\ result' = NoNote
    /\ UNCHANGED <<attached, child_sequences, max_index, index, range_map, beat,
                   next_note_start>>

\* adjustments of up to twice the swing range
SwingAdjsTwice(sw, direction) ==
    { sign * adj :
          sign \in CASE direction = "Forward" -> {1}
                     [] direction = "Reverse" -> {-1}
                     [] direction = "Both" -> {1, -1},
          adj \in IF sw[4] = "Fixed" THEN {2 * sw[2]} ELSE 0 .. 2 * sw[2] }

\* Swing.calculate_swing_adj: the adjustments it may hand back for a direction.
\* A Swing is <<swing_on, swing_range, swing_direction, swing_jitter_type>>.
SwingAdjs(sw, direction) ==
    { sign * adj :
          sign \in CASE direction = "Forward" -> {1}
                     [] direction = "Reverse" -> {-1}
                     [] direction = "Both" -> {1, -1},
          adj \in IF sw[4] = "Fixed"
                  THEN {sw[2]}
                  ELSE 0 .. sw[2] }

\* apply_swing that does not look at swing_on
ApplySwingAdjsAlways(sw) ==
    IF sw # None THEN SwingAdjs(sw, sw[3]) ELSE {0}

\* Swing.apply_swing: what it may add to the start of a note; nothing when
\* swing is off
ApplySwingAdjs(sw) ==
    IF sw # None /\ sw[1] THEN SwingAdjs(sw, sw[3]) ELSE {0}

\* the two statements of apply_phrasing under len(self) > 1, with the
\* adjustments calculate_swing_adj handed back
ApplyPhrasing(na, forward, reverse) ==
    LET Bump(got, adj) ==
            IF got.raised # "none" THEN got
            ELSE IF got.note = NoNote THEN Got("AttributeError", NoNote, got.note_attrs)
            ELSE IF got.note = PrivateNote THEN got
            ELSE Got("none", got.note,
                     NoteSetAttr(got.note_attrs, got.note, START,
                                 NoteGetAttr(got.note_attrs, got.note, START) + adj))
        first == Bump(GetNoteForIndex(na, MeasureId, 0), forward)
    IN  IF first.raised # "none"
        THEN first
        ELSE Bump(GetNoteForIndex(first.note_attrs, MeasureId, -1), reverse)

\* a swing method that returns when self.swing is None
MeasureSwingCallNoCheck(op, done) ==
    /\ last_op' = op
    /\ IF swing = None
       THEN /\ raised' = "none"
            /\ result' = NoNote
            /\ UNCHANGED <<note_attrs, swing>>
       ELSE /\ raised' = done.raised
            /\ result' = done.result
            /\ note_attrs' = done.note_attrs
            /\ swing' = done.swing
    /\ UNCHANGED <<views, meter, quantizing, csound_notes, note_list, new_note_sequence,
                   child_sequences, max_index, index, range_map, beat, next_note_start>>

\* a call of one of the Measure's swing methods: `done` is how it ends when
\* self.swing is set
MeasureSwingCall(op, done) ==
    /\ last_op' = op
    /\ IF swing = None
       THEN /\ raised' = "MeasureSwingNotEnabledException"
            /\ result' = NoNote
            /\ UNCHANGED <<note_attrs, swing>>
       ELSE /\ raised' = done.raised
            /\ result' = done.result
            /\ note_attrs' = done.note_attrs
            /\ swing' = done.swing
    /\ UNCHANGED <<views, meter, quantizing, csound_notes, note_list, new_note_sequence,
                   child_sequences, max_index, index, range_map, beat, next_note_start>>

\* how a swing method ends that changes no note
SwingDone(sw, res) ==
    [raised |-> "none", result |-> res, note_attrs |-> note_attrs, swing |-> sw]

measure_swing ==
    \/ MeasureSwingCall("swing_on", SwingDone([swing EXCEPT ![1] = TRUE], NoNote))
    \/ MeasureSwingCall("swing_off", SwingDone([swing EXCEPT ![1] = FALSE], NoNote))
    \/ MeasureSwingCall("is_swing_on", SwingDone(swing, <<swing[1]>>))
    \/ /\ swing # None /\ swing[1]
             => \A k \in 1 .. Len(note_attrs[MeasureId]) :
                    /\ note_attrs[MeasureId][k][START + 1] <= MaxSwingStart
                    /\ note_attrs[MeasureId][k][START + 1] >= -MaxSwingStart
       /\ \E adjs \in [1 .. Len(note_attrs[MeasureId]) -> ApplySwingAdjs(swing)] :
              MeasureSwingCall("apply_swing",
                  [SwingDone(swing, NoNote) EXCEPT !.note_attrs[MeasureId] =
                      [k \in 1 .. Len(note_attrs[MeasureId]) |->
                          [note_attrs[MeasureId][k] EXCEPT ![START + 1] = @ + adjs[k]]]])
    \/ \E forward \in IF swing = None THEN {0} ELSE SwingAdjs(swing, "Forward"),
          reverse \in IF swing = None THEN {0} ELSE SwingAdjs(swing, "Reverse") :
              MeasureSwingCall("apply_phrasing",
                  IF max_index[MeasureId] > 1
                  THEN [raised |-> ApplyPhrasing(note_attrs, forward, reverse).raised,
                        result |-> NoNote,
                        note_attrs |-> ApplyPhrasing(note_attrs, forward, reverse).note_attrs,
                        swing |-> swing]
                  ELSE SwingDone(swing, NoNote))

\* a Measure of at most MaxRows notes, with no Swing or with a Swing
SwingSpec ==
    /\ InitWith({ChildlessShape},
                { nn \in [Ids -> 0 .. MaxRows] : \A s \in SeqIds : nn[s] = 0 })
    /\ quantizing = TRUE
    /\ csound_notes = <<>>
    /\ note_list = <<>>
    /\ new_note_sequence = None
    /\ swing \in {None} \cup (BOOLEAN \X {1, BEAT_NOTE_DUR}
                                 \X {"Forward", "Reverse", "Both"} \X {"Fixed", "Random"})
    /\ views = <<>>
    /\ meter = None
    /\ [][measure_swing \/ quantize_to_beat]_vars

---------------------------------------------------------------------------
(* Calls on the Notes constructed over the rows of a table *)

\* the number of Notes the caller constructs
MaxViews == 2

\* a call on a Note over the table of sequence RootId.  views[v] is the Note
\* <<row, __dict__['_attr_name_idx_map'], the attributes assigned in __dict__>>
\*   "__init__"       Note(attrs=note_attrs[x])
\*   "add_attr_name"  views[v].add_attr_name(attr_name, x)
\*   "__setattr__"    views[v].attr_name = x
\*   "__getattr__"    views[v].attr_name
NoteCall(op, v, attr_name, x) ==
    /\ last_op' = op
    /\ UNCHANGED <<child_sequences, max_index, index, range_map, beat,
                   next_note_start, quantizing, csound_notes, note_list,
                   new_note_sequence, swing, meter>>
    /\ CASE op = "__init__" ->
              \* _attrs.fill(0); _attr_name_idx_map = deepcopy(BASE_ATTR_NAMES)
              /\ note_attrs' = NoteInit(note_attrs, RootId, x)
              /\ views' = Append(views,
                     << x,
                        << <<"instrument", INSTRUMENT>>, <<"i", INSTRUMENT>>,
                           <<"start", START>>, <<"s", START>>,
                           <<"dur", DUR>>, <<"d", DUR>>,
                           <<"amp", AMP>>, <<"a", AMP>>,
                           <<"pitch", PITCH>>, <<"p", PITCH>> >>,
                        <<>> >>)
              /\ raised' = "none"
              /\ result' = NoNote
         [] op = "add_attr_name" ->
              \* _attr_name_idx_map[attr_name] = attr_idx
              /\ views' = [views EXCEPT ![v][2] = DictSet(@, attr_name, x)]
              /\ raised' = "none"
              /\ result' = NoNote
              /\ UNCHANGED note_attrs
         [] op = "__setattr__" ->
              /\ result' = NoNote
              /\ IF \E k \in 1 .. Len(views[v][2]) : views[v][2][k][1] = attr_name
                 THEN \* _attrs[_attr_name_idx_map[attr_name]] = attr_val
                      \E k \in 1 .. Len(views[v][2]) :
                          /\ views[v][2][k][1] = attr_name
                          /\ IF views[v][2][k][2] < NUM_BASE_ATTRS
                             THEN /\ note_attrs' =
                                         NoteSetAttr(note_attrs, Note(RootId, views[v][1]),
                                                     views[v][2][k][2], x)
                                  /\ raised' = "none"
                             ELSE /\ raised' = "IndexError"
                                  /\ UNCHANGED note_attrs
                          /\ UNCHANGED views
                 ELSE \* __dict__[attr_name] = attr_val
                      /\ views' = [views EXCEPT ![v][3] = DictSet(@, attr_name, x)]
                      /\ raised' = "none"
                      /\ UNCHANGED note_attrs
         [] op = "__getattr__" ->
              /\ UNCHANGED <<note_attrs, views>>
              /\ IF \E k \in 1 .. Len(views[v][2]) : views[v][2][k][1] = attr_name
                 THEN \* return _attrs[_attr_name_idx_map[attr_name]]
                      \E k \in 1 .. Len(views[v][2]) :
                          /\ views[v][2][k][1] = attr_name
                          /\ IF views[v][2][k][2] < NUM_BASE_ATTRS
                             THEN /\ result' =
                                         <<NoteGetAttr(note_attrs, Note(RootId, views[v][1]),
                                                       views[v][2][k][2])>>
                                  /\ raised' = "none"
                             ELSE /\ result' = NoNote
                                  /\ raised' = "IndexError"
                 ELSE \* return __dict__[attr_name]
                      IF \E k \in 1 .. Len(views[v][3]) : views[v][3][k][1] = attr_name
                      THEN \E k \in 1 .. Len(views[v][3]) :
                               /\ views[v][3][k][1] = attr_name
                               /\ result' = <<views[v][3][k][2]>>
                               /\ raised' = "none"
                      ELSE /\ result' = NoNote
                           /\ raised' = "KeyError"

\* a NoteSequence of at least one note; the caller constructs up to MaxViews
\* Notes over its rows, registers the name "x" for an index, and assigns and
\* reads attributes by a canonical name, an alias of it and the name "x"
NoteSpec ==
    /\ InitWith({ChildlessShape},
                { nn \in [Ids -> 0 .. MaxNotes] :
                      nn[RootId] > 0 /\ \A s \in Ids \ {RootId} : nn[s] = 0 })
    /\ Unattached
    /\ [][\/ \E row \in Range(Len(note_attrs[RootId])) :
                 Len(views) < MaxViews /\ NoteCall("__init__", 0, "", row)
          \/ \E v \in 1 .. Len(views), attr_idx \in {START, DUR, NUM_BASE_ATTRS} :
                 NoteCall("add_attr_name", v, "x", attr_idx)
          \/ \E v \in 1 .. Len(views), attr_name \in {"start", "s", "dur", "x"} :
                 NoteCall("__setattr__", v, attr_name, 1)
          \/ \E v \in 1 .. Len(views), attr_name \in {"start", "s", "dur", "x"} :
                 NoteCall("__getattr__", v, attr_name, 0)]_vars

---------------------------------------------------------------------------
(* Construction of a Meter *)

\* the largest beats_per_measure a Meter is constructed with
MaxBeatsPerMeasure == 2

\* Meter(beats_per_measure, beat_length, quantizing), with Meter._validate
\* inlined.  The first two arguments are pairs <<type, value>>; a call that
\* raises assigns no Meter
MeterInit(beats_per_measure, beat_length, q) ==
    /\ last_op' = "Meter"
    /\ IF ~(beats_per_measure[1] \in {"int", "bool"}) \/ ~(beat_length[1] = "NoteDur")
       THEN /\ raised' = "ValueError"
            /\ UNCHANGED <<meter, quantizing>>
       ELSE /\ raised' = "none"
            /\ meter' = <<beats_per_measure[2], beat_length[2]>>
            /\ quantizing' = IF q = "None" THEN TRUE ELSE q = "True"
    /\ UNCHANGED <<note_attrs, child_sequences, max_index, index, range_map, beat,
                   next_note_start, result, csound_notes, note_list,
                   new_note_sequence, swing, views>>

\* Meters constructed from integers around 0, a float and None as
\* beats_per_measure, and from the members of NoteDur, a float and None as
\* beat_length; quantizing is switched on the Meter constructed last
MeterSpec ==
    /\ InitWith({ChildlessShape}, {[s \in Ids |-> 0]})
    /\ Unattached
    /\ [][\/ \E beats_per_measure \in
                    { <<"int", n>> : n \in -1 .. MaxBeatsPerMeasure }
                        \cup { <<"float", 1>>, <<"NoneType", 0>> },
                beat_length \in
                    { <<"NoteDur", d>> :
                          d \in {"WHOLE", "HALF", "QUARTER", "EIGHTH", "SIXTEENTH",
                                 "THIRTYSECOND", "SIXTYFOURTH"} }
                        \cup { <<"float", "0.25">>, <<"NoneType", "None">> },
                q \in {"None", "True", "False"} :
                    MeterInit(beats_per_measure, beat_length, q)
          \/ meter # None /\ quantizing_on
          \/ meter # None /\ quantizing_off]_vars

---------------------------------------------------------------------------
(* What the specification expects of the flattened index *)

\* the children of s as a list: no child list is no children
ChildrenOf(cs, s) == IF cs[s] = None THEN <<>> ELSE cs[s]

RECURSIVE FlatSize(_, _, _)
RECURSIVE FlatSizes(_, _, _)

\* own rows plus the flattened sizes of every child, recursively
FlatSize(na, cs, s) == Len(na[s]) + FlatSizes(na, cs, ChildrenOf(cs, s))

FlatSizes(na, cs, children) ==
    IF children = <<>> THEN 0
    ELSE FlatSize(na, cs, Head(children)) + FlatSizes(na, cs, Tail(children))

RECURSIVE Resolve(_, _, _, _)
RECURSIVE ResolveIn(_, _, _, _)

\* the (owning sequence, local row) of flattened index i of s: own rows first,
\* then each child's flattened rows in registration order, depth-first
Resolve(na, cs, s, i) ==
    IF i < Len(na[s]) THEN Note(s, i)
    ELSE ResolveIn(na, cs, ChildrenOf(cs, s), i - Len(na[s]))

ResolveIn(na, cs, children, i) ==
    IF children = <<>> THEN NoNote
    ELSE IF i < FlatSize(na, cs, Head(children))
    THEN Resolve(na, cs, Head(children), i)
    ELSE ResolveIn(na, cs, Tail(children), i - FlatSize(na, cs, Head(children)))

\* adjacent rows ascend by start
SortedByStart(rows) ==
    \A k \in 1 .. Len(rows) - 1 : At(rows[k], START) <= At(rows[k + 1], START)

\* the calls that change the notes of a Measure
MeasureWrites ==
    {"append", "extend", "__add__", "__lshift__", "insert", "remove",
     "add_note_on_beat", "add_notes_on_beat", "add_note_on_start",
     "add_notes_on_start"}

\* the calls that change the structure of a NoteSequence
SeqWrites ==
    {"append", "extend", "__add__", "__lshift__", "insert", "remove",
     "append_child_sequence"}

\* rows holds a note that starts at `start` and lasts `dur`
HasNoteAt(rows, start, dur) ==
    \E k \in 1 .. Len(rows) : At(rows[k], START) = start /\ At(rows[k], DUR) = dur

\* the durations of the first k rows, summed
RECURSIVE DurOfFirst(_, _)
DurOfFirst(rows, k) ==
    IF k = 0 THEN 0 ELSE At(rows[k], DUR) + DurOfFirst(rows, k - 1)

---------------------------------------------------------------------------
(* Properties *)

\* C1: after every call that changes the notes of a Measure, every pair of
\* adjacent notes of the Measure (a, b) satisfies a.start <= b.start.
C1_SortInvariant ==
    last_op \in MeasureWrites => SortedByStart(note_attrs[MeasureId])

\* C2: the len of every NoteSequence is its number of own rows plus the
\* flattened sizes of its children, recursively; with no children it is the
\* number of own rows.
C2_FlattenedLength ==
    \A s \in SeqIds : SeqLen(s) = FlatSize(note_attrs, child_sequences, s)

\* C3: a write that returns (append, extend, +, <<, insert, remove,
\* append_child_sequence) changes len at once by exactly the number of notes
\* it added to or took from the flattened sequence: +1 for one appended note,
\* +k for a sequence of k notes.
C3_LengthNeverStale ==
    [][(last_op' \in SeqWrites /\ raised' = "none")
         => \A s \in SeqIds :
                max_index'[s] - max_index[s]
                    = FlatSize(note_attrs', child_sequences', s)
                        - FlatSize(note_attrs, child_sequences, s)]_vars

\* C4: sequence[i] for 0 <= i < len(sequence) returns the view of the row that
\* flattened index i resolves to (own rows, then each child's flattened rows in
\* registration order, depth-first), and an index >= len is rejected.
C4_FlattenedIndexing ==
    [][\A s \in SeqIds, i \in Indexes :
           (i >= 0 /\ GetItemCall(s, i))
               => IF i >= SeqLen(s)
                  THEN raised' # "none"
                  ELSE /\ raised' = "none"
                       /\ result' = Resolve(note_attrs, child_sequences, s, i)]_vars

\* C5: every __next__ below len yields a note view and moves the cursor to the
\* next flattened index, __next__ at len stops the iteration, and __iter__
\* starts again at index 0 wherever the cursor was.
C5_IterationOrder ==
    [][\A s \in Iterated :
           /\ NextCall(s)
                => IF index[s] = SeqLen(s)
                   THEN raised' = "StopIteration"
                   ELSE /\ raised' = "none"
                        /\ result' # NoNote
                        /\ index'[s] = index[s] + 1
           /\ IterCall(s) => index'[s] = 0]_vars

\* C6: the beat cursor stays within 0 .. beats_per_measure whatever calls are
\* made; increment_beat at beats_per_measure and decrement_beat at 0 leave it
\* where it is and do not raise.
C6_BeatSaturation ==
    /\ [](0 <= beat /\ beat <= BeatsPerMeasure)
    /\ [][/\ (increment_beat /\ beat = BeatsPerMeasure)
               => (beat' = beat /\ raised' = "none")
          /\ (decrement_beat /\ beat = 0)
               => (beat' = beat /\ raised' = "none")]_vars

\* C6 witness: increment_beat was called with the cursor at the cap
C6_Witness ==
    last_op = "increment_beat" /\ beat = BeatsPerMeasure /\ raised = "none"

\* C7: add_note_on_start with next_note_start + note.dur > max_duration raises
\* ValueError and leaves the Measure's notes, its len, next_note_start and the
\* note's start as they were.
C7_CapacityCheck ==
    [][\A inc \in BOOLEAN :
           (/\ AddNoteOnStartCall(TheNote, inc)
            /\ next_note_start + NoteGetAttr(note_attrs, TheNote, DUR) > max_duration)
               => /\ raised' = "ValueError"
                  /\ note_attrs'[MeasureId] = note_attrs[MeasureId]
                  /\ max_index'[MeasureId] = max_index[MeasureId]
                  /\ next_note_start' = next_note_start
                  /\ NoteGetAttr(note_attrs', TheNote, START)
                         = NoteGetAttr(note_attrs, TheNote, START)]_vars

\* C7 witness: add_note_on_start refused a note that does not fit, and the
\* note's start is not the cursor's value
C7_Witness ==
    /\ last_op = "add_note_on_start"
    /\ raised = "ValueError"
    /\ next_note_start + NoteGetAttr(note_attrs, TheNote, DUR) > max_duration
    /\ NoteGetAttr(note_attrs, TheNote, START) # next_note_start

\* C8: add_note_on_start with next_note_start + note.dur <= max_duration adds
\* exactly one note, which starts at the old next_note_start; next_note_start
\* grows by note.dur if increment_start and keeps its value otherwise.
C8_AddNoteOnStart ==
    [][\A inc \in BOOLEAN :
           (/\ AddNoteOnStartCall(TheNote, inc)
            /\ next_note_start + NoteGetAttr(note_attrs, TheNote, DUR) <= max_duration)
               => /\ raised' = "none"
                  /\ Len(note_attrs'[MeasureId]) = Len(note_attrs[MeasureId]) + 1
                  /\ HasNoteAt(note_attrs'[MeasureId], next_note_start,
                               NoteGetAttr(note_attrs, TheNote, DUR))
                  /\ next_note_start' =
                         IF inc
                         THEN next_note_start + NoteGetAttr(note_attrs, TheNote, DUR)
                         ELSE next_note_start]_vars

\* C9: add_notes_on_start raises ValueError, with the Measure's notes and
\* next_note_start unchanged, if next_note_start plus the sum of the
\* sequence's durations exceeds max_duration; otherwise it adds every note of
\* the sequence, each starting where the one before ends, the first at the old
\* next_note_start, and next_note_start ends at old value + sum of durations.
C9_AddNotesOnStart ==
    [][AddNotesOnStartCall(ToAddId)
         => LET rows == note_attrs[ToAddId]
                total == DurOfFirst(rows, Len(rows))
            IN  IF next_note_start + total > max_duration
                THEN /\ raised' = "ValueError"
                     /\ note_attrs'[MeasureId] = note_attrs[MeasureId]
                     /\ next_note_start' = next_note_start
                ELSE /\ raised' = "none"
                     /\ Len(note_attrs'[MeasureId])
                            = Len(note_attrs[MeasureId]) + Len(rows)
                     /\ \A k \in 1 .. Len(rows) :
                            HasNoteAt(note_attrs'[MeasureId],
                                      next_note_start + DurOfFirst(rows, k - 1),
                                      At(rows[k], DUR))
                     /\ next_note_start' = next_note_start + total]_vars

\* C10: add_note_on_beat with the cursor on a beat of the measure adds exactly
\* one note, which starts at that beat's start time; the cursor moves on by
\* one beat, capped at beats_per_measure, if increment_beat and keeps its
\* value otherwise.
C10_AddNoteOnBeat ==
    [][\A inc \in BOOLEAN :
           (AddNoteOnBeatCall(TheNote, inc) /\ beat < BeatsPerMeasure)
               => /\ raised' = "none"
                  /\ Len(note_attrs'[MeasureId]) = Len(note_attrs[MeasureId]) + 1
                  /\ \E k \in 1 .. Len(note_attrs'[MeasureId]) :
                         At(note_attrs'[MeasureId][k], START)
                             = At(beat_start_times_secs, beat)
                  /\ beat' = IF inc THEN IncrementBeat(beat) ELSE beat]_vars

\* the rows with the start of row i set to the i-th beat start time, for the
\* rows i below the number of beats
RowsOnBeats(rows) ==
    [k \in 1 .. Len(rows) |->
        IF k <= Len(beat_start_times_secs)
        THEN [rows[k] EXCEPT ![START + 1] = beat_start_times_secs[k]]
        ELSE rows[k]]

\* C11: add_notes_on_beat raises ValueError, changing nothing, when the
\* sequence holds more notes than the measure has beats; otherwise it returns
\* with the Measure's notes as they were except that note i starts at the i-th
\* beat start time, for i below min(number of notes, beats_per_measure).
C11_AddNotesOnBeat ==
    [][AddNotesOnBeatCall(ToAddId)
         => IF FlatSize(note_attrs, child_sequences, ToAddId) > BeatsPerMeasure
            THEN /\ raised' = "ValueError"
                 /\ note_attrs'[MeasureId] = note_attrs[MeasureId]
            ELSE /\ raised' = "none"
                 /\ note_attrs'[MeasureId] = RowsOnBeats(note_attrs[MeasureId])]_vars

\* C12: when quantizing is disabled, or when the durations of the notes sum to
\* the measure duration, quantize returns with every note of the sequence as
\* it was and has rescaled no note.
C12_QuantizeNoOp ==
    [][\A md \in MeasureDurations :
           (/\ QuantizeCall(md)
            /\ \/ ~quantizing
               \/ NotesDuration(csound_notes, note_list) = md)
               => /\ raised' = "none"
                  /\ \A id \in 1 .. Len(note_list) : csound_notes'[id] = csound_notes[id]
                  /\ new_note_sequence' = None]_vars

\* quantize has returned from a full sequence whose durations sum to the
\* measure duration, with quantizing on
C12_Witness ==
    /\ last_op = "quantize"
    /\ quantizing
    /\ Len(note_list) = NUM_NOTES
    /\ NotesDuration(csound_notes, note_list) = <<max_duration, 1>>
    /\ new_note_sequence = None
    /\ raised = "none"

\* C13: when quantizing is enabled and the durations do not sum to the measure
\* duration, quantize returns having given every note (of the copy it works
\* on) the duration d * factor, factor = measure_duration / sum(durations),
\* and the start s + (d * factor - d) when its original start s is > 0, the
\* start 0 otherwise; d is the note's original duration.
C13_QuantizeRescaling ==
    [][\A md \in MeasureDurations :
           (/\ QuantizeCall(md)
            /\ quantizing
            /\ NotesDuration(csound_notes, note_list) # md)
               => /\ raised' = "none"
                  /\ Len(new_note_sequence') = Len(note_list)
                  /\ \A k \in 1 .. Len(note_list) :
                         LET sum == NotesDuration(csound_notes, note_list)[1]
                             s == csound_notes[note_list[k]].start[1]
                             d == csound_notes[note_list[k]].duration[1]
                             new == csound_notes'[new_note_sequence'[k]]
                         IN  /\ new.duration[1] * sum = d * md[1] * new.duration[2]
                             /\ new.start[1] * sum
                                    = (IF s > 0 THEN s * sum + d * md[1] - d * sum ELSE 0)
                                          * new.start[2]]_vars

\* C14: quantizing four notes with starts 0.0, 0.25, 0.5, 0.75 (ticks 0, 2, 4,
\* 6) and durations 0.5 (4 ticks) each against a measure duration of 1.0 (8
\* ticks) leaves the sequence, be it the one handed in or the copy quantize
\* worked on, with every duration 0.375 (3 ticks) and the starts 0.0, 0.125,
\* 0.375, 0.625 (ticks 0, 1, 3, 5).
C14_QuantizeExample ==
    [][(/\ QuantizeCall(<<max_duration, 1>>)
        /\ quantizing
        /\ SubSeq(csound_notes, 1, Len(note_list))
               = [k \in 1 .. 4 |-> [start |-> <<(k - 1) * BEAT_NOTE_DUR, 1>>,
                                    duration |-> <<2 * BEAT_NOTE_DUR, 1>>]])
           => /\ raised' = "none"
              /\ \E ids \in {note_list, new_note_sequence'} :
                     /\ Len(ids) = 4
                     /\ \A k \in 1 .. 4 :
                            /\ csound_notes'[ids[k]].duration[1]
                                   = 3 * csound_notes'[ids[k]].duration[2]
                            /\ csound_notes'[ids[k]].start[1]
                                   = <<0, 1, 3, 5>>[k] * csound_notes'[ids[k]].start[2]]_vars

C16_QuantizeToBeat ==
    [][quantize_to_beat
         => /\ Len(note_attrs'[MeasureId]) = Len(note_attrs[MeasureId])
            /\ \A k \in 1 .. Len(note_attrs[MeasureId]) :
                   LET old == note_attrs[MeasureId][k]
                       new == note_attrs'[MeasureId][k]
                       Dist(b) == IF b >= old[START + 1]
                                  THEN b - old[START + 1] ELSE old[START + 1] - b
                       beats == Range(Len(beat_start_times_secs))
                   IN  /\ \A a \in Range(NUM_BASE_ATTRS) \ {START} : At(new, a) = At(old, a)
                       /\ \E i \in beats :
                              /\ At(new, START) = At(beat_start_times_secs, i)
                              /\ \A j \in beats :
                                     /\ Dist(At(beat_start_times_secs, i))
                                            <= Dist(At(beat_start_times_secs, j))
                                     /\ Dist(At(beat_start_times_secs, i))
                                            = Dist(At(beat_start_times_secs, j)) => i <= j
                       /\ (\E i \in beats : At(old, START) = At(beat_start_times_secs, i))
                              => new = old]_vars

\* quantize_to_beat has returned from a Measure of two notes that now start
\* on different beats
C16_Witness ==
    /\ last_op = "quantize_to_beat"
    /\ Len(note_attrs[MeasureId]) >= 2
    /\ At(note_attrs[MeasureId][1], START) = At(beat_start_times_secs, 0)
    /\ At(note_attrs[MeasureId][2], START) = At(beat_start_times_secs, 1)

\* C17: with swing switched on and magnitude m, apply_swing changes nothing
\* but the starts of the notes, and a note that started at s starts at s + m
\* for Forward/Fixed, at s - m for Reverse/Fixed, within [s, s + m] for
\* Forward/Random, within [s - m, s] for Reverse/Random, and within
\* [s - m, s + m] for Both.
C17_SwingBounds ==
    [][(last_op' = "apply_swing" /\ swing # None /\ swing[1])
         => /\ raised' = "none"
            /\ swing' = swing
            /\ Len(note_attrs'[MeasureId]) = Len(note_attrs[MeasureId])
            /\ \A k \in 1 .. Len(note_attrs[MeasureId]) :
                   LET s == At(note_attrs[MeasureId][k], START)
                       new == At(note_attrs'[MeasureId][k], START)
                       m == swing[2]
                   IN  /\ \A a \in Range(NUM_BASE_ATTRS) \ {START} :
                              At(note_attrs'[MeasureId][k], a) = At(note_attrs[MeasureId][k], a)
                       /\ CASE swing[3] = "Forward" /\ swing[4] = "Fixed" -> new = s + m
                            [] swing[3] = "Reverse" /\ swing[4] = "Fixed" -> new = s - m
                            [] swing[3] = "Forward" /\ swing[4] = "Random"
                                   -> s <= new /\ new <= s + m
                            [] swing[3] = "Reverse" /\ swing[4] = "Random"
                                   -> s - m <= new /\ new <= s
                            [] swing[3] = "Both" -> s - m <= new /\ new <= s + m]_vars

\* apply_swing has returned with swing on, Both and Random, from a Measure
\* of two notes that now start on either side of 0
C17_Witness ==
    /\ last_op = "apply_swing"
    /\ raised = "none"
    /\ swing # None
    /\ swing[1]
    /\ swing[3] = "Both"
    /\ swing[4] = "Random"
    /\ Len(note_attrs[MeasureId]) >= 2
    /\ At(note_attrs[MeasureId][1], START) < 0
    /\ At(note_attrs[MeasureId][2], START) > 0

\* C18: apply_swing while swing is switched off changes no note; switching
\* swing off or on changes no note, so the offsets applied before stay; and
\* apply_swing with swing switched on (again) and Fixed shifts every start
\* once more.
C18_SwingOff ==
    [][swing # None
         => /\ (last_op' = "apply_swing" /\ ~swing[1])
                   => raised' = "none" /\ note_attrs' = note_attrs /\ swing' = swing
            /\ last_op' \in {"swing_off", "swing_on"}
                   => /\ raised' = "none"
                      /\ note_attrs' = note_attrs
                      /\ swing' = [swing EXCEPT ![1] = (last_op' = "swing_on")]
            /\ (last_op' = "apply_swing" /\ swing[1] /\ swing[4] = "Fixed")
                   => \A k \in 1 .. Len(note_attrs[MeasureId]) :
                          At(note_attrs'[MeasureId][k], START)
                              # At(note_attrs[MeasureId][k], START)]_vars

\* apply_swing has returned with swing off from a Measure whose notes keep
\* the offsets applied while swing was on
C18_Witness ==
    /\ last_op = "apply_swing"
    /\ raised = "none"
    /\ swing # None
    /\ ~swing[1]
    /\ Len(note_attrs[MeasureId]) >= 2
    /\ \A k \in 1 .. Len(note_attrs[MeasureId]) : At(note_attrs[MeasureId][k], START) # 0

\* C19: on a Measure with no Swing, swing_on, swing_off, is_swing_on,
\* apply_swing and apply_phrasing each raise MeasureSwingNotEnabledException,
\* whatever the number of notes, and leave the notes, the beat cursor and
\* next_note_start as they were.
C19_SwingNotEnabled ==
    [][(/\ swing = None
        /\ last_op' \in {"swing_on", "swing_off", "is_swing_on", "apply_swing",
                         "apply_phrasing"})
         => /\ raised' = "MeasureSwingNotEnabledException"
            /\ note_attrs' = note_attrs
            /\ beat' = beat
            /\ next_note_start' = next_note_start
            /\ swing' = None]_vars

\* apply_phrasing has raised on a Measure of MaxRows notes with no Swing
C19_Witness ==
    /\ swing = None
    /\ last_op = "apply_phrasing"
    /\ raised = "MeasureSwingNotEnabledException"
    /\ Len(note_attrs[MeasureId]) = MaxRows

\* C20: apply_phrasing on a Measure with a Swing (switched on) returns; with
\* 0 or 1 notes it changes nothing; with 2 or more notes the first note's
\* start has grown by a forward swing adjustment, the last note's start has
\* gone down by a reverse swing adjustment, and nothing else has changed.
C20_ApplyPhrasing ==
    [][(last_op' = "apply_phrasing" /\ swing # None /\ swing[1])
         => /\ raised' = "none"
            /\ swing' = swing
            /\ IF Len(note_attrs[MeasureId]) <= 1
               THEN note_attrs' = note_attrs
               ELSE \E forward \in SwingAdjs(swing, "Forward"),
                       reverse \in SwingAdjs(swing, "Reverse") :
                        note_attrs' =
                            [note_attrs EXCEPT
                                 ![MeasureId][1][START + 1] = @ + forward,
                                 ![MeasureId][Len(note_attrs[MeasureId])][START + 1] =
                                     @ + reverse]]_vars

\* C21: shared row storage.  An assignment through a Note to a name of its
\* attribute map (the canonical name or an alias) writes the assigned value to
\* the one cell of the Note's row that the name is mapped to and changes no
\* other cell of any row (an assignment to any other name goes to the Note's
\* __dict__ and changes no cell); and the value stays: no call other than an
\* assignment changes a cell, so that every later read, through this Note or
\* any other Note over the same row and under any name mapped to the same
\* column, returns it.
C21_SharedRowStorage ==
    [][/\ last_op' = "__setattr__"
              => \/ /\ note_attrs' = note_attrs
                    /\ \/ raised' = "IndexError"
                       \/ \E v \in 1 .. Len(views) : \E k \in 1 .. Len(views'[v][3]) :
                              /\ views'[v][3][k][2] = 1
                              /\ \A j \in 1 .. Len(views[v][2]) :
                                     views[v][2][j][1] # views'[v][3][k][1]
                 \/ \E v \in 1 .. Len(views) : \E k \in 1 .. Len(views[v][2]) :
                        /\ views' = views
                        /\ raised' = "none"
                        /\ note_attrs' =
                               NoteSetAttr(note_attrs, Note(RootId, views[v][1]),
                                           views[v][2][k][2], 1)
                        /\ \A w \in 1 .. Len(views) : \A j \in 1 .. Len(views[w][2]) :
                               (views[w][1] = views[v][1]
                                    /\ views[w][2][j][2] = views[v][2][k][2])
                                   => NoteGetAttr(note_attrs', Note(RootId, views[w][1]),
                                                  views[w][2][j][2]) = 1
       /\ last_op' # "__setattr__" => note_attrs' = note_attrs]_vars

\* C22: append(note) of a note with the table's number of columns succeeds:
\* the table gains one row, placed last, holding the note's values, and the
\* earlier rows keep theirs; extend(other) of a sequence with the table's
\* number of columns succeeds whatever the two numbers of rows are, and
\* appends other's rows in order.  (Every note and every sequence of the
\* model has NUM_BASE_ATTRS columns, so the mismatch case does not arise.)
C22_AppendExtend ==
    [][/\ last_op' = "append"
              => /\ raised' = "none"
                 /\ note_attrs' = [note_attrs EXCEPT ![RootId] = Append(@, ZeroRow)]
       /\ last_op' = "extend"
              => /\ raised' = "none"
                 /\ \E t \in OtherIds :
                        note_attrs' = [note_attrs EXCEPT ![RootId] = @ \o note_attrs[t]]]_vars

\* C23: insert(index, x) with 0 <= index <= len places the rows of x (the one
\* row of a note, the rows of a sequence) at positions index, index + 1, ...,
\* keeps the rows before index and moves the rows from index on behind the
\* inserted ones; with index > len it raises IndexError and leaves the table
\* unchanged.
C23_Insert ==
    [][\A i \in Indexes, x \in SeqToAdd :
           InsertCall(RootId, i, x)
               => LET arr == note_attrs[RootId]
                      rows == IF IsNote(x) THEN <<ZeroRow>> ELSE note_attrs[x.seq]
                  IN  /\ (0 <= i /\ i <= Len(arr))
                             => /\ raised' = "none"
                                /\ note_attrs' =
                                       [note_attrs EXCEPT ![RootId] =
                                           SubSeq(arr, 1, i) \o rows
                                               \o SubSeq(arr, i + 1, Len(arr))]
                      /\ i > Len(arr)
                             => /\ raised' = "IndexError"
                                /\ note_attrs' = note_attrs]_vars

\* C24: remove(x) of a note that is a row of the table deletes exactly that
\* row: len drops by one and the remaining rows keep their values and their
\* order; remove(x) of a note or a sequence that is not of this table raises
\* and leaves the table unchanged.
C24_Remove ==
    [][\A x \in SeqToAdd \cup ToAdd(NotesOf(RootId), {}) :
           RemoveCall(RootId, x)
               => LET arr == note_attrs[RootId]
                  IN  IF IsNote(x) /\ x.note.seq = RootId
                      THEN /\ raised' = "none"
                           /\ note_attrs' =
                                  [note_attrs EXCEPT ![RootId] =
                                      SubSeq(arr, 1, x.note.row)
                                          \o SubSeq(arr, x.note.row + 2, Len(arr))]
                      ELSE /\ raised' # "none"
                           /\ note_attrs' = note_attrs]_vars

\* C25: add_attr_name(name, index) never adds a column (no cell and no row
\* length changes); for a name not yet in the map it adds the binding; for
\* the pair (name, index) already in the map it changes nothing; and for a
\* name already bound to a different index it raises and leaves the existing
\* binding in place.
C25_AddAttrName ==
    [][\A v \in 1 .. Len(views), attr_idx \in {START, DUR, NUM_BASE_ATTRS} :
           NoteCall("add_attr_name", v, "x", attr_idx)
               => LET map == views[v][2]
                      bound == { k \in 1 .. Len(map) : map[k][1] = "x" }
                  IN  /\ note_attrs' = note_attrs
                      /\ IF bound = {}
                         THEN /\ raised' = "none"
                              /\ views' = [views EXCEPT ![v][2] =
                                               Append(map, <<"x", attr_idx>>)]
                         ELSE IF \E k \in bound : map[k][2] = attr_idx
                         THEN /\ raised' = "none"
                              /\ views' = views
                         ELSE /\ raised' # "none"
                              /\ views' = views]_vars

\* C26: Meter construction raises and assigns no Meter unless
\* beats_per_measure is a positive integer and beat_length is a member of
\* NoteDur.
C26_MeterValidation ==
    [][\A beats_per_measure \in
              { <<"int", n>> : n \in -1 .. MaxBeatsPerMeasure }
                  \cup { <<"float", 1>>, <<"NoneType", 0>> },
          beat_length \in
              { <<"NoteDur", d>> :
                    d \in {"WHOLE", "HALF", "QUARTER", "EIGHTH", "SIXTEENTH",
                           "THIRTYSECOND", "SIXTYFOURTH"} }
                  \cup { <<"float", "0.25">>, <<"NoneType", "None">> },
          q \in {"None", "True", "False"} :
              (/\ MeterInit(beats_per_measure, beat_length, q)
               /\ ~(/\ beats_per_measure[1] = "int"
                    /\ beats_per_measure[2] > 0
                    /\ beat_length[1] = "NoteDur"))
                  => /\ raised' # "none"
                     /\ meter' = meter]_vars

C29_BeatStartDefined ==
    [][\A inc \in BOOLEAN :
           AddNoteOnBeatCall(TheNote, inc)
               => /\ beat < Len(beat_start_times_secs)
                  /\ raised' # "IndexError"]_vars

\* C30: obtaining a Note, by sequence[i] or by the next step of an iteration,
\* changes no cell of any table, whether the call returns a Note or raises.
C30_ViewsAreProjections ==
    [][/\ \A s \in SeqIds, i \in Indexes :
              GetItemCall(s, i) => note_attrs' = note_attrs
       /\ \A s \in Iterated :
              NextCall(s) => note_attrs' = note_attrs]_vars

===========================================================================
